---------------------------- MODULE Spec2Model ----------------------------
(***************************************************************************)
(* Witness calculator of src/c/calcwit.cpp (class Circom_CalcWit).         *)
(*                                                                         *)
(* The calculator is one shared object used by the driver thread and by    *)
(* the detached threads started by triggerComponent.  Every access of a    *)
(* shared cell (inputSignalsToTrigger, signalAssigned, signalValues, the   *)
(* mutex bank) is one step of the thread that makes it, so that the        *)
(* unsynchronised accesses of setSignal and reset interleave as they can   *)
(* at run time.  A component function (fn) is opaque generated code; it is *)
(* given here as a list of calls into the calculator.                      *)
(***************************************************************************)
EXTENDS Integers, Sequences, FiniteSets, TLC

\* ------------------------------------------------------------------ bounds

\* Size of the mutex / condition variable bank (scaled down so that two
\* components of a small circuit share a slot).
NMUTEXES == 2

\* Number of runs the driver performs: the constructor's reset() with the
\* first join(), then reset() and a replay of the same inputs.
MaxRuns == 2

\* External input values the driver may feed are 1..MaxInput.
MaxInput == 1

\* Number of probe start positions of a symbol table: hash & 0xFF has 256
\* values in the code, scaled down here to hash % Buckets.
Buckets == 4

\* Name hashes are 0 .. MaxHash (u64 in the code); 0 marks an empty slot.
MaxHash == 11

\* Largest number of names stored in one component's table.
MaxKeys == 2

\* ----------------------------------------------------------------- circuits

\* The driver thread is not a component; its frames carry this index.
Driver == 0 - 1

Get(c, s) == [op |-> "get", c |-> c, s |-> s, k |-> 0]

Set(c, s, k) == [op |-> "set", c |-> c, s |-> s, k |-> k]

Fin == [op |-> "fin", c |-> 0, s |-> 0, k |-> 0]

ResetOp == [op |-> "reset", c |-> 0, s |-> 0, k |-> 0]

JoinOp == [op |-> "join", c |-> 0, s |-> 0, k |-> 0]

Comp(n, nt, fn) == [inputSignals |-> n, newThread |-> nt, fn |-> fn]

(* Tree: a parent (component 1, fed by the driver) with two threaded       *)
(* children 0 and 2; the parent writes each child's input and reads each   *)
(* child's output through the blocking path of getSignal.                  *)
(* signals: 1 in of 0, 2 out of 0, 3 in of 2, 4 out of 2, 5 in of 1,       *)
(* 6 out of 1.                                                             *)
Tree ==
  [ P |-> 7, NSignals |-> 7, NComponents |-> 3, runs |-> MaxRuns,
    mapIsInput |-> {1, 3, 5},
    components |->
      ( 0 :> Comp(1, TRUE,  << Get(0, 1), Set(0, 2, 1), Fin >>) @@
        1 :> Comp(1, FALSE, << Get(1, 5), Set(0, 1, 0), Set(2, 3, 0),
                               Get(0, 2), Get(2, 4), Set(1, 6, 0), Fin >>) @@
        2 :> Comp(1, TRUE,  << Get(2, 3), Set(2, 4, 2), Fin >>) ),
    inputs |-> << [c |-> 1, s |-> 5] >>,
    extra |-> << >> ]

(* FanIn: two threaded components (2, fed by the driver, and 3, without    *)
(* inputs) each write one of the two inputs of component 1, which feeds    *)
(* component 0.                                                            *)
(* signals: 1, 2 in of 1; 3 in of 0; 4 out of 0; 5 in of 2.                *)
FanIn ==
  [ P |-> 7, NSignals |-> 6, NComponents |-> 4, runs |-> MaxRuns,
    mapIsInput |-> {1, 2, 3, 5},
    components |->
      ( 0 :> Comp(1, FALSE, << Get(0, 3), Set(0, 4, 1), Fin >>) @@
        1 :> Comp(2, FALSE, << Get(1, 1), Get(1, 2), Set(0, 3, 0), Fin >>) @@
        2 :> Comp(1, TRUE,  << Get(2, 5), Set(1, 1, 1), Fin >>) @@
        3 :> Comp(0, TRUE,  << Set(1, 2, 2), Fin >>) ),
    inputs |-> << [c |-> 2, s |-> 5] >>,
    extra |-> << >> ]

(* ZeroParent: component 0 has no inputs, so reset() fires it; it feeds    *)
(* its threaded child 1 and reads the child's output.                      *)
(* signals: 1 in of 1, 2 out of 1, 3 out of 0.                             *)
ZeroParent ==
  [ P |-> 7, NSignals |-> 4, NComponents |-> 2, runs |-> MaxRuns,
    mapIsInput |-> {1},
    components |->
      ( 0 :> Comp(0, FALSE, << Set(1, 1, 2), Get(1, 2), Set(0, 3, 0), Fin >>) @@
        1 :> Comp(1, TRUE,  << Get(1, 1), Set(1, 2, 1), Fin >>) ),
    inputs |-> << >>,
    extra |-> << >> ]

(* Identity: one component copying its input; after join() the driver      *)
(* writes signal 0 and writes the component's input a second time.         *)
(* signals: 1 in of 0, 2 out of 0.                                         *)
Identity ==
  [ P |-> 7, NSignals |-> 3, NComponents |-> 1, runs |-> 1,
    mapIsInput |-> {1},
    components |->
      ( 0 :> Comp(1, FALSE, << Get(0, 1), Set(0, 2, 0), Fin >>) ),
    inputs |-> << [c |-> 0, s |-> 1] >>,
    extra |-> << [c |-> 0, s |-> 0], [c |-> 0, s |-> 1] >> ]

(* ZeroChain: two threaded components without inputs, both fired by        *)
(* reset(); component 0 reads the output of component 1.                   *)
(* signals: 1 out of 1, 2 out of 0.                                        *)
ZeroChain ==
  [ P |-> 7, NSignals |-> 3, NComponents |-> 2, runs |-> MaxRuns,
    mapIsInput |-> {},
    components |->
      ( 0 :> Comp(0, TRUE, << Get(1, 1), Set(0, 2, 1), Fin >>) @@
        1 :> Comp(0, TRUE, << Set(1, 1, 2), Fin >>) ),
    inputs |-> << >>,
    extra |-> << >> ]

(* ZeroFeeder: component 0 has no inputs and runs on a thread of its own;  *)
(* it writes the only input of component 1.                                *)
(* signals: 1 in of 1, 2 out of 1.                                         *)
ZeroFeeder ==
  [ P |-> 7, NSignals |-> 3, NComponents |-> 2, runs |-> MaxRuns,
    mapIsInput |-> {1},
    components |->
      ( 0 :> Comp(0, TRUE,  << Set(1, 1, 2), Fin >>) @@
        1 :> Comp(1, FALSE, << Get(1, 1), Set(1, 2, 1), Fin >>) ),
    inputs |-> << >>,
    extra |-> << >> ]

Circuits == << Tree, FanIn, ZeroParent, Identity, ZeroChain, ZeroFeeder >>

\* Contents an uninitialised int of `new int[NComponents]' may hold.
UninitInts == {0 - 1, 0, 1}

VARIABLES
  circuitId,              \* which Circom_Circuit the calculator was built on
  threaded,               \* FALSE: the same circuit with newThread = false everywhere
  sanity,                 \* the build defines SANITY_CHECK
  input,                  \* the value the driver feeds to every external input
  signalValues,
  signalAssigned,
  inputSignalsToTrigger,
  mutexes,                \* owner thread of each mutex of the bank, 0 when free
  threads,                \* call stack of every thread; thread 1 is the driver
  aborted,                \* assert(false) ended the process
  run,                    \* history: number of reset() calls begun
  fired,                  \* history: fn invocations per component since the last reset()
  inputWrites,            \* history: setSignal calls on input signals per component, this run
  markCount,              \* history: times signalAssigned[s] was set by setSignal, this run
  writtenRun,             \* history: run in which signalValues[s] was last written
  firstWitness,           \* history: signalValues when the first join() returned
  hashTable,              \* components[cIdx].hashTable of the component looked up
  entries,                \* components[cIdx].entries of the component looked up
  lookup                  \* the symbol lookup call in progress, if any

vars == << circuitId, threaded, sanity, input, signalValues, signalAssigned,
           inputSignalsToTrigger, mutexes, threads, aborted, run, fired,
           inputWrites, markCount, writtenRun, firstWitness,
           hashTable, entries, lookup >>

\* The state of the scheduler and of the signal store.
calcVars == << circuitId, threaded, sanity, input, signalValues, signalAssigned,
               inputSignalsToTrigger, mutexes, threads, aborted, run, fired,
               inputWrites, markCount, writtenRun, firstWitness >>

\* The symbol tables (immutable data) and the lookup call in progress.
lookupVars == << hashTable, entries, lookup >>

circuit == Circuits[circuitId]

Components == 0 .. (circuit.NComponents - 1)

Signals == 0 .. (circuit.NSignals - 1)

newThread(c) == threaded /\ circuit.components[c].newThread

inputSignals(c) == circuit.components[c].inputSignals

BITMAP_ISSET(s) == s \in circuit.mapIsInput


\* ------------------------------------------------------------------ driver

\* One run of the hosting driver: reset() (the first one is the call at the
\* end of the constructor), the external inputs, join().
RunBlock ==
  << ResetOp >>
  \o [j \in 1 .. Len(circuit.inputs) |->
        Set(circuit.inputs[j].c, circuit.inputs[j].s, input)]
  \o << JoinOp >>

RECURSIVE Repeat(_, _)
Repeat(block, n) == IF n = 0 THEN << >> ELSE block \o Repeat(block, n - 1)

DriverProg ==
  Repeat(RunBlock, circuit.runs)
  \o [j \in 1 .. Len(circuit.extra) |->
        Set(circuit.extra[j].c, circuit.extra[j].s, input + 1)]

\* The code a frame executes: the driver's calls, or components[c].fn.
Prog(c) == IF c = Driver THEN DriverProg ELSE circuit.components[c].fn

\* ------------------------------------------------------------------ frames

\* A frame is one activation: of the driver, or of fn(this, c).  pc is the
\* call it is at, st the step inside that call, acc the local value computed
\* from the signals read so far, tmp the counter value loaded by the
\* decrement, i the loop index of reset() and join().
Frame(c) == [c |-> c, pc |-> 1, st |-> "op", acc |-> 0, tmp |-> 0, i |-> 0]

Top(t) == threads[t][Len(threads[t])]

Running(t) == ~aborted /\ threads[t] # << >> /\ Top(t).pc <= Len(Prog(Top(t).c))

CurOp(t) == Prog(Top(t).c)[Top(t).pc]

At(t, kind, states) ==
  /\ Running(t)
  /\ CurOp(t).op = kind
  /\ Top(t).st \in states

WithTop(stk, f) == [stk EXCEPT ![Len(stk)] = f]

RECURSIVE Return(_)
\* The call the top frame of stk is in has returned.  When that was the last
\* call of a component's fn, the frame is popped and control is back in the
\* triggerComponent call of the frame below: in setSignal, which returns in
\* turn, or in the loop of reset(), which moves on to the next component.
Return(stk) ==
  LET f == stk[Len(stk)]
      nf == [f EXCEPT !.pc = f.pc + 1, !.st = "op", !.tmp = 0, !.i = 0]
      rest == SubSeq(stk, 1, Len(stk) - 1)
  IN  IF f.c = Driver \/ nf.pc <= Len(Prog(f.c))
      THEN WithTop(stk, nf)
      ELSE IF rest = << >>
           THEN << >>
           ELSE LET g == rest[Len(rest)]
                IN  IF Prog(g.c)[g.pc].op = "reset" /\ g.i + 1 < circuit.NComponents
                    THEN WithTop(rest, [g EXCEPT !.i = g.i + 1, !.st = "rinit"])
                    ELSE Return(rest)

\* triggerComponent without the newThread branch: fn always runs inline.
triggerComponentInline(t, c, waiting, after) ==
  /\ threads' = [threads EXCEPT ![t] = Append(waiting, Frame(c))]
  /\ fired' = [fired EXCEPT ![c] = @ + 1]

\* triggerComponent(c) called by thread t, whose stack is `waiting' while fn
\* runs inline and `after' once triggerComponent has returned.
triggerComponent(t, c, waiting, after) ==
  /\ threads' = IF newThread(c)
                THEN Append([threads EXCEPT ![t] = after], << Frame(c) >>)
                ELSE [threads EXCEPT ![t] = Append(waiting, Frame(c))]
  /\ fired' = [fired EXCEPT ![c] = @ + 1]

\* ------------------------------------------------------------------- init

\* No symbol lookup is in progress.
NoLookup == [fn |-> "none", hash |-> 0, hIdx |-> 0, st |-> "idle",
             res |-> "none", val |-> 0]

\* The state at the end of the constructor's body, before its reset() call.
Init ==
  /\ circuitId \in 1 .. Len(Circuits)
  /\ threaded \in BOOLEAN
  /\ sanity \in BOOLEAN
  /\ input \in 1 .. MaxInput
  /\ signalValues = [s \in Signals |-> IF s = 0 THEN 1 ELSE 0]
  /\ IF sanity
     THEN signalAssigned \in {f \in [Signals -> BOOLEAN] : f[0]}
     ELSE signalAssigned = [s \in Signals |-> FALSE]
  /\ inputSignalsToTrigger \in [Components -> UninitInts]
  /\ mutexes = [m \in 0 .. (NMUTEXES - 1) |-> 0]
  /\ threads = << << Frame(Driver) >> >>
  /\ aborted = FALSE
  /\ run = 0
  /\ fired = [c \in Components |-> 0]
  /\ inputWrites = [c \in Components |-> 0]
  /\ markCount = [s \in Signals |-> 0]
  /\ writtenRun = [s \in Signals |-> 0]
  /\ firstWitness = << >>
  /\ hashTable = << >>
  /\ entries = << >>
  /\ lookup = NoLookup


\* ------------------------------------------------------------------ reset

Slot(c) == c % NMUTEXES

SetTop(t, f) == [threads EXCEPT ![t] = WithTop(threads[t], f)]

\* reset() with the clearing loop started at index 0 instead of 1: the bit of
\* the constant signal is cleared too.
ResetBeginFromZero(t) ==
  /\ At(t, "reset", {"op"})
  /\ signalAssigned' = IF sanity
                       THEN [s \in Signals |->
                               IF 0 <= s /\ s < circuit.NComponents
                               THEN FALSE ELSE signalAssigned[s]]
                       ELSE signalAssigned
  /\ threads' = SetTop(t, [Top(t) EXCEPT !.st = "rinit", !.i = 0])
  /\ run' = run + 1
  /\ fired' = [c \in Components |-> 0]
  /\ inputWrites' = [c \in Components |-> 0]
  /\ markCount' = [s \in Signals |-> 0]
  /\ UNCHANGED << firstWitness, circuitId, threaded, sanity, input, signalValues,
                  inputSignalsToTrigger, mutexes, aborted, writtenRun >>

\* reset(), lines 71-73: with SANITY_CHECK the loop clearing signalAssigned
\* runs over the component indices 1 .. NComponents-1.
ResetBegin(t) ==
  /\ At(t, "reset", {"op"})
  /\ signalAssigned' = IF sanity
                       THEN [s \in Signals |->
                               IF 1 <= s /\ s < circuit.NComponents
                               THEN FALSE ELSE signalAssigned[s]]
                       ELSE signalAssigned
  /\ threads' = SetTop(t, [Top(t) EXCEPT !.st = "rinit", !.i = 0])
  /\ run' = run + 1
  /\ fired' = [c \in Components |-> 0]
  /\ inputWrites' = [c \in Components |-> 0]
  /\ markCount' = [s \in Signals |-> 0]
  /\ UNCHANGED << firstWitness, circuitId, threaded, sanity, input, signalValues,
                  inputSignalsToTrigger, mutexes, aborted, writtenRun >>

\* reset(), line 76: inputSignalsToTrigger[i] = components[i].inputSignals.
ResetInit(t) ==
  /\ At(t, "reset", {"rinit"})
  /\ inputSignalsToTrigger' =
       [inputSignalsToTrigger EXCEPT ![Top(t).i] = inputSignals(Top(t).i)]
  /\ threads' = SetTop(t, [Top(t) EXCEPT !.st = "rtrig"])
  /\ UNCHANGED << firstWitness, circuitId, threaded, sanity, input, signalValues, signalAssigned,
                  mutexes, aborted, run, fired, inputWrites, markCount, writtenRun >>

\* reset(), line 77: if (inputSignalsToTrigger[i] == 0) triggerComponent(i);
\* then the loop's i++.
ResetTrigger(t) ==
  /\ At(t, "reset", {"rtrig"})
  /\ LET f == Top(t)
         next == IF f.i + 1 < circuit.NComponents
                 THEN WithTop(threads[t], [f EXCEPT !.i = f.i + 1, !.st = "rinit"])
                 ELSE Return(threads[t])
     IN  IF inputSignalsToTrigger[f.i] = 0
         THEN triggerComponent(t, f.i, WithTop(threads[t], [f EXCEPT !.st = "call"]), next)
         ELSE threads' = [threads EXCEPT ![t] = next] /\ UNCHANGED fired
  /\ UNCHANGED << firstWitness, circuitId, threaded, sanity, input, signalValues, signalAssigned,
                  inputSignalsToTrigger, mutexes, aborted, run, inputWrites,
                  markCount, writtenRun >>

\* -------------------------------------------------------------- setSignal

\* setSignal, lines 179-182: the read of signalAssigned[sIdx]; assert(false)
\* ends the process.
SetCheckAssigned(t) ==
  /\ sanity
  /\ At(t, "set", {"op"})
  /\ IF signalAssigned[CurOp(t).s]
     THEN aborted' = TRUE /\ UNCHANGED threads
     ELSE threads' = SetTop(t, [Top(t) EXCEPT !.st = "smark"]) /\ UNCHANGED aborted
  /\ UNCHANGED << firstWitness, circuitId, threaded, sanity, input, signalValues, signalAssigned,
                  inputSignalsToTrigger, mutexes, run, fired, inputWrites,
                  markCount, writtenRun >>

\* setSignal, line 183: signalAssigned[sIdx] = true.
SetMarkAssigned(t) ==
  /\ At(t, "set", {"smark"})
  /\ signalAssigned' = [signalAssigned EXCEPT ![CurOp(t).s] = TRUE]
  /\ markCount' = [markCount EXCEPT ![CurOp(t).s] = @ + 1]
  /\ threads' = SetTop(t, [Top(t) EXCEPT !.st = "sstore"])
  /\ UNCHANGED << firstWitness, circuitId, threaded, sanity, input, signalValues,
                  inputSignalsToTrigger, mutexes, aborted, run, fired,
                  inputWrites, writtenRun >>

\* The value a frame passes to setSignal: the driver passes the external
\* input, a component its field sum of the signals read plus a constant.
ValueOf(f, o) == (f.acc + o.k) % circuit.P

\* setSignal, lines 191-192: mpz_set(signalValues[sIdx], *value) and the test
\* of the mapIsInput bit (immutable data).
SetStore(t) ==
  /\ \/ ~sanity /\ At(t, "set", {"op"})
     \/ At(t, "set", {"sstore"})
  /\ LET o == CurOp(t)
     IN  /\ signalValues' = [signalValues EXCEPT ![o.s] = ValueOf(Top(t), o)]
         /\ writtenRun' = [writtenRun EXCEPT ![o.s] = run]
         /\ IF BITMAP_ISSET(o.s)
            THEN /\ threads' = SetTop(t, [Top(t) EXCEPT !.st = "sgt"])
                 /\ inputWrites' = [inputWrites EXCEPT ![o.c] = @ + 1]
            ELSE /\ threads' = [threads EXCEPT ![t] = Return(threads[t])]
                 /\ UNCHANGED inputWrites
  /\ UNCHANGED << firstWitness, circuitId, threaded, sanity, input, signalAssigned,
                  inputSignalsToTrigger, mutexes, aborted, run, fired, markCount >>

\* setSignal, line 193: if (inputSignalsToTrigger[cIdx] > 0).
SetCheckPending(t) ==
  /\ At(t, "set", {"sgt"})
  /\ threads' = IF inputSignalsToTrigger[CurOp(t).c] > 0
                THEN SetTop(t, [Top(t) EXCEPT !.st = "sload"])
                ELSE [threads EXCEPT ![t] = Return(threads[t])]
  /\ UNCHANGED << firstWitness, circuitId, threaded, sanity, input, signalValues, signalAssigned,
                  inputSignalsToTrigger, mutexes, aborted, run, fired,
                  inputWrites, markCount, writtenRun >>

\* setSignal, line 194, inputSignalsToTrigger[cIdx]--: the load.
SetLoad(t) ==
  /\ At(t, "set", {"sload"})
  /\ threads' = SetTop(t, [Top(t) EXCEPT !.st = "sdec",
                                         !.tmp = inputSignalsToTrigger[CurOp(t).c]])
  /\ UNCHANGED << firstWitness, circuitId, threaded, sanity, input, signalValues, signalAssigned,
                  inputSignalsToTrigger, mutexes, aborted, run, fired,
                  inputWrites, markCount, writtenRun >>

\* setSignal, line 194, inputSignalsToTrigger[cIdx]--: the store.
SetDec(t) ==
  /\ At(t, "set", {"sdec"})
  /\ inputSignalsToTrigger' =
       [inputSignalsToTrigger EXCEPT ![CurOp(t).c] = Top(t).tmp - 1]
  /\ threads' = SetTop(t, [Top(t) EXCEPT !.st = "szero", !.tmp = 0])
  /\ UNCHANGED << firstWitness, circuitId, threaded, sanity, input, signalValues, signalAssigned,
                  mutexes, aborted, run, fired, inputWrites, markCount, writtenRun >>

\* setSignal, line 195: if (inputSignalsToTrigger[cIdx] == 0)
\* triggerComponent(cIdx).
SetTrigger(t) ==
  /\ At(t, "set", {"szero"})
  /\ IF inputSignalsToTrigger[CurOp(t).c] = 0
     THEN triggerComponent(t, CurOp(t).c,
                           WithTop(threads[t], [Top(t) EXCEPT !.st = "call"]),
                           Return(threads[t]))
     ELSE threads' = [threads EXCEPT ![t] = Return(threads[t])] /\ UNCHANGED fired
  /\ UNCHANGED << firstWitness, circuitId, threaded, sanity, input, signalValues, signalAssigned,
                  inputSignalsToTrigger, mutexes, aborted, run, inputWrites,
                  markCount, writtenRun >>


\* -------------------------------------------------------------- getSignal

\* getSignal, line 144: the producer runs on a thread of its own and is not
\* the caller.
Blocking(t) == newThread(CurOp(t).c) /\ Top(t).c # CurOp(t).c

\* The condition variable a waiting frame sleeps on.
CvOf(f) == IF Prog(f.c)[f.pc].op = "join" THEN Slot(f.i) ELSE Slot(Prog(f.c)[f.pc].c)

Waiting(u, m) ==
  /\ threads[u] # << >>
  /\ Top(u).st = "wait"
  /\ CvOf(Top(u)) = m

\* getSignal taking the lock for every producer, without the test of
\* line 144.
GetLockAlways(t) ==
  /\ \/ At(t, "get", {"op"})
     \/ At(t, "get", {"relock"})
  /\ mutexes[Slot(CurOp(t).c)] = 0
  /\ mutexes' = [mutexes EXCEPT ![Slot(CurOp(t).c)] = t]
  /\ threads' = SetTop(t, [Top(t) EXCEPT !.st = "gcheck"])
  /\ UNCHANGED << firstWitness, circuitId, threaded, sanity, input, signalValues, signalAssigned,
                  inputSignalsToTrigger, aborted, run, fired, inputWrites,
                  markCount, writtenRun >>

\* getSignal, line 145: unique_lock on mutexes[cIdx % NMUTEXES]; also the
\* re-acquisition by which cvs[].wait returns.
GetLock(t) ==
  /\ \/ At(t, "get", {"op"}) /\ Blocking(t)
     \/ At(t, "get", {"relock"})
  /\ mutexes[Slot(CurOp(t).c)] = 0
  /\ mutexes' = [mutexes EXCEPT ![Slot(CurOp(t).c)] = t]
  /\ threads' = SetTop(t, [Top(t) EXCEPT !.st = "gcheck"])
  /\ UNCHANGED << firstWitness, circuitId, threaded, sanity, input, signalValues, signalAssigned,
                  inputSignalsToTrigger, aborted, run, fired, inputWrites,
                  markCount, writtenRun >>

\* getSignal, lines 146-148: while (inputSignalsToTrigger[cIdx] != -1)
\* cvs[].wait(lk); wait releases the mutex and blocks in one step.
GetCheck(t) ==
  /\ At(t, "get", {"gcheck"})
  /\ IF inputSignalsToTrigger[CurOp(t).c] # 0 - 1
     THEN /\ mutexes' = [mutexes EXCEPT ![Slot(CurOp(t).c)] = 0]
          /\ threads' = SetTop(t, [Top(t) EXCEPT !.st = "wait"])
     ELSE /\ threads' = SetTop(t, [Top(t) EXCEPT !.st = "gunlock"])
          /\ UNCHANGED mutexes
  /\ UNCHANGED << firstWitness, circuitId, threaded, sanity, input, signalValues, signalAssigned,
                  inputSignalsToTrigger, aborted, run, fired, inputWrites,
                  markCount, writtenRun >>

\* getSignal, line 150: lk.unlock().
GetUnlock(t) ==
  /\ At(t, "get", {"gunlock"})
  /\ mutexes' = [mutexes EXCEPT ![Slot(CurOp(t).c)] = 0]
  /\ threads' = SetTop(t, [Top(t) EXCEPT !.st = "gread"])
  /\ UNCHANGED << firstWitness, circuitId, threaded, sanity, input, signalValues, signalAssigned,
                  inputSignalsToTrigger, aborted, run, fired, inputWrites,
                  markCount, writtenRun >>

\* getSignal, lines 152-158: the SANITY_CHECK test of signalAssigned[sIdx]
\* and mpz_set(*value, signalValues[sIdx]).
GetRead(t) ==
  /\ \/ At(t, "get", {"op"}) /\ ~Blocking(t)
     \/ At(t, "get", {"gread"})
  /\ IF sanity /\ ~signalAssigned[CurOp(t).s]
     THEN aborted' = TRUE /\ UNCHANGED threads
     ELSE /\ threads' =
               [threads EXCEPT ![t] =
                  Return(WithTop(threads[t],
                     [Top(t) EXCEPT !.acc = (@ + signalValues[CurOp(t).s]) % circuit.P]))]
          /\ UNCHANGED aborted
  /\ UNCHANGED << firstWitness, circuitId, threaded, sanity, input, signalValues, signalAssigned,
                  inputSignalsToTrigger, mutexes, run, fired, inputWrites,
                  markCount, writtenRun >>

\* --------------------------------------------------------------- finished

\* finished, line 168: lock_guard on mutexes[cIdx % NMUTEXES].  fn calls
\* finished with its own component index.
FinLock(t) ==
  /\ At(t, "fin", {"op"})
  /\ mutexes[Slot(Top(t).c)] = 0
  /\ mutexes' = [mutexes EXCEPT ![Slot(Top(t).c)] = t]
  /\ threads' = SetTop(t, [Top(t) EXCEPT !.st = "fwrite"])
  /\ UNCHANGED << firstWitness, circuitId, threaded, sanity, input, signalValues, signalAssigned,
                  inputSignalsToTrigger, aborted, run, fired, inputWrites,
                  markCount, writtenRun >>

\* finished, line 169: inputSignalsToTrigger[cIdx] = -1.
FinWrite(t) ==
  /\ At(t, "fin", {"fwrite"})
  /\ inputSignalsToTrigger' = [inputSignalsToTrigger EXCEPT ![Top(t).c] = 0 - 1]
  /\ threads' = SetTop(t, [Top(t) EXCEPT !.st = "funlock"])
  /\ UNCHANGED << firstWitness, circuitId, threaded, sanity, input, signalValues, signalAssigned,
                  mutexes, aborted, run, fired, inputWrites, markCount, writtenRun >>

\* finished, line 170: the lock_guard goes out of scope.
FinUnlock(t) ==
  /\ At(t, "fin", {"funlock"})
  /\ mutexes' = [mutexes EXCEPT ![Slot(Top(t).c)] = 0]
  /\ threads' = SetTop(t, [Top(t) EXCEPT !.st = "fnotify"])
  /\ UNCHANGED << firstWitness, circuitId, threaded, sanity, input, signalValues, signalAssigned,
                  inputSignalsToTrigger, aborted, run, fired, inputWrites,
                  markCount, writtenRun >>

\* finished, line 172: cvs[cIdx % NMUTEXES].notify_all() wakes every thread
\* waiting on that condition variable; each must re-acquire the mutex.
FinNotify(t) ==
  /\ At(t, "fin", {"fnotify"})
  /\ threads' =
       [u \in DOMAIN threads |->
          IF u = t THEN Return(threads[t])
          ELSE IF Waiting(u, Slot(Top(t).c))
               THEN WithTop(threads[u], [Top(u) EXCEPT !.st = "relock"])
               ELSE threads[u]]
  /\ UNCHANGED << firstWitness, circuitId, threaded, sanity, input, signalValues, signalAssigned,
                  inputSignalsToTrigger, mutexes, aborted, run, fired,
                  inputWrites, markCount, writtenRun >>

\* std::condition_variable::wait may return without a notification.
SpuriousWakeup(t) ==
  /\ ~aborted
  /\ threads[t] # << >>
  /\ Top(t).st = "wait"
  /\ threads' = SetTop(t, [Top(t) EXCEPT !.st = "relock"])
  /\ UNCHANGED << firstWitness, circuitId, threaded, sanity, input, signalValues, signalAssigned,
                  inputSignalsToTrigger, mutexes, aborted, run, fired,
                  inputWrites, markCount, writtenRun >>

\* ------------------------------------------------------------------- join

\* join, line 238: unique_lock on mutexes[i % NMUTEXES]; also the
\* re-acquisition by which cvs[].wait returns.
JoinLock(t) ==
  /\ At(t, "join", {"op", "relock"})
  /\ mutexes[Slot(Top(t).i)] = 0
  /\ mutexes' = [mutexes EXCEPT ![Slot(Top(t).i)] = t]
  /\ threads' = SetTop(t, [Top(t) EXCEPT !.st = "jcheck"])
  /\ UNCHANGED << firstWitness, circuitId, threaded, sanity, input, signalValues, signalAssigned,
                  inputSignalsToTrigger, aborted, run, fired, inputWrites,
                  markCount, writtenRun >>

\* join, lines 239-241: while (inputSignalsToTrigger[i] != -1) cvs[].wait(lk).
JoinCheck(t) ==
  /\ At(t, "join", {"jcheck"})
  /\ IF inputSignalsToTrigger[Top(t).i] # 0 - 1
     THEN /\ mutexes' = [mutexes EXCEPT ![Slot(Top(t).i)] = 0]
          /\ threads' = SetTop(t, [Top(t) EXCEPT !.st = "wait"])
     ELSE /\ threads' = SetTop(t, [Top(t) EXCEPT !.st = "junlock"])
          /\ UNCHANGED mutexes
  /\ UNCHANGED << firstWitness, circuitId, threaded, sanity, input, signalValues, signalAssigned,
                  inputSignalsToTrigger, aborted, run, fired, inputWrites,
                  markCount, writtenRun >>

\* join, line 243 and the loop's i++: lk.unlock(), then the next component
\* or the return.
JoinUnlock(t) ==
  /\ At(t, "join", {"junlock"})
  /\ mutexes' = [mutexes EXCEPT ![Slot(Top(t).i)] = 0]
  /\ threads' = IF Top(t).i + 1 < circuit.NComponents
                THEN SetTop(t, [Top(t) EXCEPT !.st = "op", !.i = @ + 1])
                ELSE [threads EXCEPT ![t] = Return(threads[t])]
  /\ firstWitness' = IF Top(t).i + 1 = circuit.NComponents /\ firstWitness = << >>
                     THEN signalValues ELSE firstWitness
  /\ UNCHANGED << circuitId, threaded, sanity, input, signalValues, signalAssigned,
                  inputSignalsToTrigger, aborted, run, fired, inputWrites,
                  markCount, writtenRun >>

\* ------------------------------------------------------------------- spec

Next ==
  \/ \E t \in DOMAIN threads : ResetBegin(t) /\ UNCHANGED lookupVars
  \/ \E t \in DOMAIN threads : ResetInit(t) /\ UNCHANGED lookupVars
  \/ \E t \in DOMAIN threads : ResetTrigger(t) /\ UNCHANGED lookupVars
  \/ \E t \in DOMAIN threads : SetCheckAssigned(t) /\ UNCHANGED lookupVars
  \/ \E t \in DOMAIN threads : SetMarkAssigned(t) /\ UNCHANGED lookupVars
  \/ \E t \in DOMAIN threads : SetStore(t) /\ UNCHANGED lookupVars
  \/ \E t \in DOMAIN threads : SetCheckPending(t) /\ UNCHANGED lookupVars
  \/ \E t \in DOMAIN threads : SetLoad(t) /\ UNCHANGED lookupVars
  \/ \E t \in DOMAIN threads : SetDec(t) /\ UNCHANGED lookupVars
  \/ \E t \in DOMAIN threads : SetTrigger(t) /\ UNCHANGED lookupVars
  \/ \E t \in DOMAIN threads : GetLock(t) /\ UNCHANGED lookupVars
  \/ \E t \in DOMAIN threads : GetCheck(t) /\ UNCHANGED lookupVars
  \/ \E t \in DOMAIN threads : GetUnlock(t) /\ UNCHANGED lookupVars
  \/ \E t \in DOMAIN threads : GetRead(t) /\ UNCHANGED lookupVars
  \/ \E t \in DOMAIN threads : FinLock(t) /\ UNCHANGED lookupVars
  \/ \E t \in DOMAIN threads : FinWrite(t) /\ UNCHANGED lookupVars
  \/ \E t \in DOMAIN threads : FinUnlock(t) /\ UNCHANGED lookupVars
  \/ \E t \in DOMAIN threads : FinNotify(t) /\ UNCHANGED lookupVars
  \/ \E t \in DOMAIN threads : SpuriousWakeup(t) /\ UNCHANGED lookupVars
  \/ \E t \in DOMAIN threads : JoinLock(t) /\ UNCHANGED lookupVars
  \/ \E t \in DOMAIN threads : JoinCheck(t) /\ UNCHANGED lookupVars
  \/ \E t \in DOMAIN threads : JoinUnlock(t) /\ UNCHANGED lookupVars

Spec == Init /\ [][Next]_vars


\* ---------------------------------------------------------- symbol lookup

EmptySlot == [hash |-> 0, pos |-> 0]

\* Slot i of a table (the C index, from 0) is element i + 1 of the sequence.
SlotAt(tab, i) == tab[i + 1]

\* hash & 0xFF, scaled.
Home(hash) == hash % Buckets

\* The compiler's placement of a name: the first free slot at or after its
\* home; with wrap the slot after the last one is slot 0.
RECURSIVE FreeFrom(_, _, _)
FreeFrom(tab, i, wrap) ==
  IF SlotAt(tab, i).hash = 0 THEN i
  ELSE FreeFrom(tab, IF wrap THEN (i + 1) % Len(tab) ELSE i + 1, wrap)

\* The table holding keys[1 .. n], name keys[j] described by entries[j - 1].
RECURSIVE Build(_, _, _)
Build(keys, n, wrap) ==
  IF n = 0
  THEN [i \in 1 .. (IF wrap THEN Buckets ELSE Buckets + MaxKeys) |-> EmptySlot]
  ELSE LET tab == Build(keys, n - 1, wrap)
           i   == FreeFrom(tab, Home(keys[n]), wrap)
       IN  [tab EXCEPT ![i + 1] = [hash |-> keys[n], pos |-> n - 1]]

\* Sequences of at most MaxKeys distinct non-zero hashes.
KeyLists ==
  UNION { { ks \in [1 .. n -> 1 .. MaxHash] :
              \A a, b \in 1 .. n : a # b => ks[a] # ks[b] } : n \in 1 .. MaxKeys }

\* entries[] of a component with n names: entry j has its own offset and sizes.
EntryLists(n) ==
  { [j \in 1 .. n |-> [type |-> ty[j], offset |-> 10 + j, sizes |-> 20 + j]] :
      ty \in [1 .. n -> {"Signal", "Component"}] }

Accessors == { "getSubComponentOffset", "getSubComponentSizes",
               "getSignalOffset", "getSignalSizes" }

\* The entry type an accessor accepts.
ExpectedType(fn) ==
  IF fn \in {"getSignalOffset", "getSignalSizes"} THEN "Signal" ELSE "Component"

\* A calculator at rest, and one component's symbol table with its entries.
LookupInit ==
  /\ circuitId = 4 /\ threaded = FALSE /\ sanity = FALSE /\ input = 1
  /\ signalValues = [s \in Signals |-> IF s = 0 THEN 1 ELSE 0]
  /\ signalAssigned = [s \in Signals |-> FALSE]
  /\ inputSignalsToTrigger = [c \in Components |-> 0 - 1]
  /\ mutexes = [m \in 0 .. (NMUTEXES - 1) |-> 0]
  /\ threads = << << Frame(Driver) >> >>
  /\ aborted = FALSE
  /\ run = 0
  /\ fired = [c \in Components |-> 0]
  /\ inputWrites = [c \in Components |-> 0]
  /\ markCount = [s \in Signals |-> 0]
  /\ writtenRun = [s \in Signals |-> 0]
  /\ firstWitness = << >>
  /\ \E ks \in KeyLists, wrap \in BOOLEAN :
       /\ hashTable = Build(ks, Len(ks), wrap)
       /\ entries \in EntryLists(Len(ks))
  /\ lookup = NoLookup

\* A call of one of the four accessors: hIdx = int(hash & 0xFF).
LookupCall ==
  /\ lookup.st = "idle"
  /\ \E fn \in Accessors, h \in 0 .. MaxHash :
       lookup' = [fn |-> fn, hash |-> h, hIdx |-> Home(h), st |-> "probe",
                  res |-> "none", val |-> 0]
  /\ UNCHANGED << hashTable, entries >>

\* One evaluation of the for loop's condition and body on a slot of the
\* table: leave the loop on a match, throw on an empty slot, else hIdx++.
LookupProbe ==
  /\ lookup.st = "probe"
  /\ lookup.hIdx < Len(hashTable)
  /\ LET slot == SlotAt(hashTable, lookup.hIdx)
     IN  lookup' =
           IF slot.hash = lookup.hash THEN [lookup EXCEPT !.st = "matched"]
           ELSE IF slot.hash = 0
                THEN [lookup EXCEPT !.st = "done", !.res = "hash not found"]
                ELSE [lookup EXCEPT !.hIdx = @ + 1]
  /\ UNCHANGED << hashTable, entries >>

\* What a call can end in after reading hashTable[hIdx] past the end of the
\* array: the memory there decides.
OutsideOutcomes == { "hash not found", "invalid type", "value", "fault" }

\* The loop's condition evaluated with hIdx past the last slot.
LookupProbeOutside ==
  /\ lookup.st = "probe"
  /\ lookup.hIdx >= Len(hashTable)
  /\ \E r \in OutsideOutcomes, v \in {0, 1} :
       lookup' = [lookup EXCEPT !.st = "done", !.res = r,
                                !.val = IF r = "value" THEN v ELSE 0]
  /\ UNCHANGED << hashTable, entries >>

\* After the loop: entryPos = hashTable[hIdx].pos, the type test, the return.
LookupResolve ==
  /\ lookup.st = "matched"
  /\ LET entryPos == SlotAt(hashTable, lookup.hIdx).pos
     IN  IF entryPos + 1 \in DOMAIN entries
         THEN LET e == entries[entryPos + 1]
              IN  lookup' =
                    IF e.type # ExpectedType(lookup.fn)
                    THEN [lookup EXCEPT !.st = "done", !.res = "invalid type"]
                    ELSE [lookup EXCEPT !.st = "done", !.res = "value",
                            !.val = IF lookup.fn \in {"getSignalOffset",
                                                       "getSubComponentOffset"}
                                    THEN e.offset ELSE e.sizes]
         ELSE \E r \in {"invalid type", "value", "fault"} :
                lookup' = [lookup EXCEPT !.st = "done", !.res = r]
  /\ UNCHANGED << hashTable, entries >>

\* The caller goes on to its next lookup.
LookupReturn ==
  /\ lookup.st = "done"
  /\ lookup' = NoLookup
  /\ UNCHANGED << hashTable, entries >>

LookupNext ==
  \/ LookupCall /\ UNCHANGED calcVars
  \/ LookupProbe /\ UNCHANGED calcVars
  \/ LookupProbeOutside /\ UNCHANGED calcVars
  \/ LookupResolve /\ UNCHANGED calcVars
  \/ LookupReturn /\ UNCHANGED calcVars

LookupSpec == LookupInit /\ [][LookupNext]_vars


\* ----------------------------------------------------------------- claims

DriverFrame == threads[1][1]

\* The driver is inside join().
InJoin ==
  /\ DriverFrame.pc <= Len(DriverProg)
  /\ DriverProg[DriverFrame.pc].op = "join"

\* This step is the return of join().
JoinReturns == InJoin /\ DriverFrame'.pc = DriverFrame.pc + 1

\* The driver stands right after the r-th join(), before its next call.
JoinReturned(r) ==
  /\ ~aborted
  /\ r <= circuit.runs
  /\ DriverFrame.pc = r * Len(RunBlock) + 1
  /\ DriverFrame.st = "op"

\* C1: join() returns only in a state where inputSignalsToTrigger[c] = -1 for
\* every component c.
C1_JoinReturnsAllFinished ==
  [][JoinReturns => \A c \in Components : inputSignalsToTrigger'[c] = 0 - 1]_vars


\* C2: between two consecutive reset() calls the fn of every component is
\* invoked at most once.
C2_FnAtMostOnce == \A c \in Components : fired[c] <= 1

\* Some thread is inside a setSignal call on an input signal addressed to c,
\* past the store of the value and before the call's return or trigger.
InSetInput(c) ==
  \E t \in DOMAIN threads : \E k \in DOMAIN threads[t] :
    LET f == threads[t][k]
    IN  /\ f.pc <= Len(Prog(f.c))
        /\ Prog(f.c)[f.pc].op = "set"
        /\ Prog(f.c)[f.pc].c = c
        /\ BITMAP_ISSET(Prog(f.c)[f.pc].s)
        /\ f.st \in {"sgt", "sload", "sdec", "szero"}

\* C3: for a component with inputSignals > 0 the setSignal call that writes
\* its last outstanding input triggers it exactly once: not before all its
\* inputs are written, and once all the writes have returned it has been
\* triggered once, no more and no less.
C3_LastInputTriggersOnce ==
  \A c \in Components :
    inputSignals(c) > 0 =>
      /\ fired[c] > 0 => inputWrites[c] >= inputSignals(c)
      /\ (inputWrites[c] >= inputSignals(c) /\ ~InSetInput(c)) => fired[c] = 1

\* This step is the assignment of line 76 to the counter of component c.
IsResetInit(c) ==
  /\ DriverFrame.st = "rinit"
  /\ DriverFrame.i = c
  /\ DriverFrame'.st = "rtrig"

\* C4: within a run the counter of a component is set to inputSignals by
\* reset(), then each step decrements it by one while it is positive or moves
\* it to -1, and once it is -1 nothing in that run changes it.
C4_PendingMonotone ==
  [][\A c \in Components :
       inputSignalsToTrigger'[c] # inputSignalsToTrigger[c] =>
         \/ /\ IsResetInit(c)
            /\ fired[c] = 0
            /\ inputSignalsToTrigger'[c] = inputSignals(c)
         \/ /\ inputSignalsToTrigger[c] > 0
            /\ inputSignalsToTrigger'[c] = inputSignalsToTrigger[c] - 1
         \/ /\ inputSignalsToTrigger[c] >= 0
            /\ inputSignalsToTrigger'[c] = 0 - 1]_vars

\* Thread t is in getSignal on another, threaded component and has passed the
\* wait loop.
PastWait(t) ==
  /\ threads[t] # << >>
  /\ Top(t).pc <= Len(Prog(Top(t).c))
  /\ CurOp(t).op = "get"
  /\ Top(t).st \in {"gunlock", "gread"}

\* C5: a getSignal on a threaded producer other than the caller does not get
\* past its wait before the producer's counter is -1, and the cell it then
\* copies holds what the producer wrote in this run before calling finished.
C5_BlockingGetSeesProducer ==
  \A t \in DOMAIN threads :
    PastWait(t) =>
      /\ inputSignalsToTrigger[CurOp(t).c] = 0 - 1
      /\ writtenRun[CurOp(t).s] = run

\* Thread t has nothing left to run: its fn has returned, or it is the driver
\* past its last call.
Done(t) ==
  \/ threads[t] = << >>
  \/ Top(t).c = Driver /\ Top(t).pc > Len(DriverProg)

\* No thread can take a step other than returning from a wait without
\* notification, and the counters can no longer change.
Quiescent ==
  \A t \in DOMAIN threads : Done(t) \/ Top(t).st = "wait"

\* Some thread waits on a condition variable that nobody is left to notify.
Hung == ~aborted /\ Quiescent /\ \E t \in DOMAIN threads : ~Done(t)

\* Every component's fn was invoked in this run and has returned, so every
\* component has called finished.
AllFinishedCalled ==
  /\ \A c \in Components : fired[c] >= 1
  /\ \A t \in DOMAIN threads : \A k \in DOMAIN threads[t] : threads[t][k].c = Driver

\* C6: once every component has called finished, join() and every blocked
\* getSignal return; stated for the states in which nothing but the waiters
\* is left to run: no waiter is left waiting there.
C6_NoWaiterLeftBehind == AllFinishedCalled => ~Hung


\* Some call of the circuit's code or of the driver names signal index 0 as
\* the target of setSignal.
WritesSignalZero ==
  \/ \E j \in DOMAIN DriverProg : DriverProg[j].op = "set" /\ DriverProg[j].s = 0
  \/ \E c \in Components : \E j \in DOMAIN Prog(c) :
       Prog(c)[j].op = "set" /\ Prog(c)[j].s = 0

\* C7 (as stated): signalValues[0] equals 1 in every reachable state.
C7_OneSignal == signalValues[0] = 1

\* C7 (amended): signalValues[0] equals 1 in every reachable state of a build
\* with SANITY_CHECK, and of a build without it as long as no setSignal call
\* names signal index 0.
C7_OneSignalAmended == (sanity \/ ~WritesSignalZero) => signalValues[0] = 1

\* With SANITY_CHECK the driver has called setSignal on signal index 0 after a
\* completed run; the call ended in assert(false) and signal 0 is still 1.
C7_Witness ==
  /\ sanity /\ aborted /\ run = 1
  /\ DriverFrame.pc <= Len(DriverProg)
  /\ DriverProg[DriverFrame.pc].op = "set" /\ DriverProg[DriverFrame.pc].s = 0
  /\ signalValues[0] = 1

\* The witness of each circuit for external input x: the signal values its
\* data flow defines.
Witness ==
  LET x == input
      q == circuit.P
  IN  CASE circuitId = 1 ->
             << 1, x % q, (x + 1) % q, x % q, (x + 2) % q, x % q, (3 * x + 3) % q >>
        [] circuitId = 2 ->
             << 1, (x + 1) % q, 2, (x + 3) % q, (x + 4) % q, x % q >>
        [] circuitId = 3 -> << 1, 2, 3, 3 >>
        [] circuitId = 4 -> << 1, x % q, x % q >>
        [] circuitId = 5 -> << 1, 2, 3 >>
        [] circuitId = 6 -> << 1, 2, 3 >>

\* signalValues[0 .. NSignals) as a sequence.
WitnessNow == [j \in 1 .. circuit.NSignals |-> signalValues[j - 1]]

\* C8: without SANITY_CHECK, the run with the circuit's own newThread flags
\* and the run with newThread false everywhere both complete, and both leave
\* the circuit's witness in signalValues when join() returns.
C8_FlagsDoNotChangeWitness ==
  ~sanity =>
     /\ run = 1 => ~Hung
     /\ JoinReturned(1) => WitnessNow = Witness

\* C9: after a completed run, reset() and a replay of the same external
\* inputs complete again and leave the signalValues of the first run.
C9_ReplayReproducesWitness ==
  /\ run = 2 => ~aborted /\ ~Hung
  /\ JoinReturned(2) => signalValues = firstWitness

\* C10: with SANITY_CHECK, in a run that succeeded the assigned bit of every
\* signal s > 0 was set exactly once.
C10_AssignedExactlyOnce ==
  sanity =>
    \A r \in 1 .. circuit.runs :
      (JoinReturned(r) /\ run = r) =>
         \A s \in Signals \ {0} : markCount[s] = 1


\* Hash h is stored in the table (a zero hash marks an empty slot).
Stored(h) == h # 0 /\ \E i \in DOMAIN hashTable : hashTable[i].hash = h

\* The entry at the pos stored with hash h.
EntryOf(h) ==
  LET i == CHOOSE j \in DOMAIN hashTable : hashTable[j].hash = h
  IN  entries[hashTable[i].pos + 1]

\* What the accessor fn returns for entry e.
FieldOf(fn, e) ==
  IF fn \in {"getSignalOffset", "getSubComponentOffset"} THEN e.offset ELSE e.sizes

\* C11: a lookup of a stored hash returns the offset / sizes of the entry at
\* the stored pos when the entry has the type the accessor expects, and fails
\* with "invalid type" when it has the other type; also for hashes that share
\* their probe start with other stored hashes.
C11_StoredHashResolves ==
  (lookup.st = "done" /\ Stored(lookup.hash)) =>
     LET e == EntryOf(lookup.hash)
     IN  IF e.type = ExpectedType(lookup.fn)
         THEN lookup.res = "value" /\ lookup.val = FieldOf(lookup.fn, e)
         ELSE lookup.res = "invalid type"

\* C12: a lookup of a hash that is not stored, whose probe has reached an
\* empty slot, fails with "hash not found" and returns no entry.
C12_AbsentHashNotFound ==
  ( /\ lookup.st = "done"
    /\ ~Stored(lookup.hash)
    /\ lookup.hIdx < Len(hashTable)
    /\ SlotAt(hashTable, lookup.hIdx).hash = 0 )
  => lookup.res = "hash not found"

\* The table has at least one empty slot.
HasEmptySlot == \E i \in DOMAIN hashTable : hashTable[i].hash = 0

\* C13: in a table with an empty slot the probe only reads slots inside the
\* table (it wraps from the last slot to the first).
C13_ProbeStaysInside ==
  (HasEmptySlot /\ lookup.st = "probe") => lookup.hIdx < Len(hashTable)


\* This step is the test of line 77 that reset() makes for component c.
IsResetTrigger(c) ==
  /\ DriverFrame.st = "rtrig" /\ DriverFrame.i = c
  /\ DriverFrame' # DriverFrame

\* C14: the step of reset() for component c triggers c exactly when
\* inputSignals[c] = 0, and that trigger is the component's only one of the
\* run: reset() triggers each zero-input component once and no other one.
C14_ResetTriggersZeroInput ==
  [][\A c \in Components :
       /\ IsResetTrigger(c) =>
            /\ (fired'[c] = fired[c] + 1) <=> (inputSignals(c) = 0)
            /\ inputSignals(c) = 0 => fired[c] = 0
       /\ (inputSignals(c) = 0 /\ fired'[c] # fired[c] /\ run' = run)
            => IsResetTrigger(c)]_vars


\* This step is the start of a reset() call (its SANITY_CHECK clearing loop).
IsResetBegin == run' = run + 1

\* C15: with SANITY_CHECK, reset() leaves the assigned bit of every signal
\* s in [1, NSignals) clear, so that after it a read of s is refused as
\* unassigned and a write of s is not refused as a double assignment.
C15_ResetClearsAssigned ==
  [][(sanity /\ IsResetBegin) =>
        \A s \in Signals \ {0} : ~signalAssigned'[s]]_vars


\* The thread that takes this step.
Stepping(t) == t \in DOMAIN threads /\ threads'[t] # threads[t]

\* C16: every step that changes inputSignalsToTrigger[c] is taken by a thread
\* that holds mutexes[c % NMUTEXES].
C16_CounterWrittenUnderMutex ==
  [][\A c \in Components :
       inputSignalsToTrigger'[c] # inputSignalsToTrigger[c] =>
          \E t \in DOMAIN threads : Stepping(t) /\ mutexes[Slot(c)] = t]_vars


\* Number of frames on the stack of thread t after / before the step.
Depth(t) == Len(threads[t])

\* C17: triggerComponent(c) with newThread false pushes fn(c) on the calling
\* thread, whose caller frames stay where they are until fn(c) has made its
\* last call (chained triggers nest depth-first); with newThread true it
\* starts fn(c) at its first call on a new thread and the caller goes on
\* without a frame of c on its stack.
C17_InlineOrDetached ==
  [][/\ \A t \in DOMAIN threads :
          /\ \A k \in 1 .. (Depth(t) - 1) :
               Len(threads'[t]) > k => threads'[t][k] = threads[t][k]
          /\ Len(threads'[t]) < Depth(t) =>
               /\ Len(threads'[t]) = Depth(t) - 1
               /\ Top(t).pc = Len(Prog(Top(t).c))
               /\ CurOp(t).op = "fin"
          /\ Len(threads'[t]) > Depth(t) =>
               LET g == threads'[t][Len(threads'[t])]
               IN  /\ Len(threads'[t]) = Depth(t) + 1
                   /\ g = Frame(g.c)
                   /\ ~newThread(g.c)
                   /\ fired'[g.c] = fired[g.c] + 1
                   /\ threads'[t][Depth(t)].st = "call"
                   /\ Len(threads') = Len(threads)
     /\ Len(threads') # Len(threads) =>
          LET g == threads'[Len(threads')]
          IN  /\ Len(threads') = Len(threads) + 1
              /\ Len(g) = 1 /\ g[1] = Frame(g[1].c)
              /\ newThread(g[1].c)
              /\ fired'[g[1].c] = fired[g[1].c] + 1
              /\ \A t \in DOMAIN threads :
                   /\ Len(threads'[t]) <= Depth(t)
                   /\ threads'[t] # << >> =>
                        threads'[t][Len(threads'[t])].st # "call"
     /\ \A c \in Components :
          (fired'[c] = fired[c] + 1 /\ run' = run) =>
             Len(threads') = Len(threads) + (IF newThread(c) THEN 1 ELSE 0)
    ]_vars

\* A chain of two inline triggers is running on a thread (three frames deep)
\* while a component started on a thread of its own exists.
C17_Witness ==
  /\ Len(threads) >= 2
  /\ \E t \in DOMAIN threads :
       /\ Depth(t) >= 3
       /\ \A k \in 1 .. (Depth(t) - 1) : threads[t][k].st = "call"


\* Thread t is in a getSignal whose producer is not threaded or is the
\* calling component itself.
InPlainGet(t) ==
  /\ ~Done(t)
  /\ CurOp(t).op = "get"
  /\ ~newThread(CurOp(t).c) \/ CurOp(t).c = Top(t).c

\* C18: a getSignal on a producer that is not threaded, or on the caller's
\* own component, holds no mutex and is never in the waiting loop; a thread
\* waits on a condition variable only in join() or in a getSignal on another,
\* threaded component.
C18_PlainGetNeverBlocks ==
  \A t \in DOMAIN threads :
    /\ InPlainGet(t) =>
         /\ Top(t).st = "op"
         /\ \A m \in DOMAIN mutexes : mutexes[m] # t
    /\ (~Done(t) /\ Top(t).st \in {"wait", "relock", "gcheck", "jcheck"}) =>
         \/ CurOp(t).op = "join"
         \/ /\ CurOp(t).op = "get"
            /\ newThread(CurOp(t).c) /\ CurOp(t).c # Top(t).c

\* A component has just returned from a getSignal on another, non-threaded
\* component whose counter is not -1.
C18_Witness ==
  \E t \in DOMAIN threads :
    /\ ~Done(t) /\ ~aborted
    /\ Top(t).c # Driver /\ Top(t).pc > 1 /\ Top(t).st = "op"
    /\ LET o == Prog(Top(t).c)[Top(t).pc - 1]
       IN  /\ o.op = "get" /\ o.c # Top(t).c
           /\ ~newThread(o.c)
           /\ inputSignalsToTrigger[o.c] # 0 - 1


\* The current run's reset() has executed line 76 for component c.
ResetPassed(c) ==
  LET f == DriverFrame
  IN  \/ f.pc > Len(DriverProg)
      \/ DriverProg[f.pc].op # "reset"
      \/ f.st = "op"
      \/ f.i > c
      \/ f.i = c /\ f.st \in {"rtrig", "call"}

\* C19: while component c has not been triggered in the current run, its
\* counter equals inputSignals[c] minus the number of setSignal calls on its
\* input signals since the run's reset() began (stated for the states in
\* which reset() has initialised the counter and no such call is under way).
C19_CounterAccounting ==
  \A c \in Components :
    (run >= 1 /\ fired[c] = 0 /\ ResetPassed(c) /\ ~InSetInput(c)) =>
       inputSignalsToTrigger[c] = inputSignals(c) - inputWrites[c]


\* C20: a run does not get stuck: there is no state in which every thread
\* that is still inside a call waits on a condition variable, in join() or in
\* getSignal, with no thread left that could call finished (so that join()
\* could never return, whatever the scheduling).
C20_GlobalProgress ==
  (~aborted /\ \E t \in DOMAIN threads : ~Done(t) /\ Top(t).st = "wait") =>
     \E u \in DOMAIN threads : ~Done(u) /\ Top(u).st # "wait"

=============================================================================
